---- MODULE Spec2Model ----
(***************************************************************************)
(* MediaCorr: the work partitioner of the sharded stages (split_work in    *)
(* app/sources.py, app/filter.py, app/correlator.py), the job manifests of *)
(* api/kube/manifests.py and the job lifecycle controller of               *)
(* api/kube/jobs.py (run_job, wait_until_job_deleted) driving a cluster    *)
(* scheduler, job_status, the causality functions of                       *)
(* app/utils/causality.py, the files the stage programs write, and the     *)
(* downloader of src/download.py.                                          *)
(*                                                                         *)
(* SpecShards : a stage's job is built, its replicas (or a process started *)
(*              with an arbitrary environment) partition the input.        *)
(* Spec       : run_job calls against the scheduler, one at a time, with   *)
(*              scheduler faults and the scheduler's own asynchronous      *)
(*              steps (pods starting and ending, foreground finalisation). *)
(* SpecRace   : two run_job calls for one job name served concurrently.    *)
(* SpecStatus : Spec together with GET /status queries.                    *)
(* SpecCausality : lagged_correlation and granger_test on series with      *)
(*              missing values.                                            *)
(* SpecStages : the ingest, filter, classify and correlate programs run as *)
(*              replicas of a job or as processes with a given shard.      *)
(* SpecPipeline : the triggers of two consecutive stages and their pods.   *)
(* SpecWait   : one trigger of one stage, the polling thread being fair.   *)
(* SpecTriggers : the six triggers of api/main.py.                         *)
(* SpecDownload : download_one of src/download.py, call after call.        *)
(* SpecMonths : month_iter of src/download.py on every pair of dates.      *)
(***************************************************************************)
EXTENDS Integers, Sequences, FiniteSets, TLC

VARIABLES
    stage,      \* which program runs as the shard process
    items,      \* the stage's ordered input (domains, file names, lags)
    manifest,   \* the V1Job built for the stage, or NoJob
    run,        \* the last invocation of the shard process
    series,     \* the joined daily series the causality functions are given
    frame,      \* what the last call of a function returned or raised
    dl,         \* src/download.py: the files under dest_dir and the download_one call
    volume,     \* the files the job's replicas wrote to the shared volume
    jobs,       \* scheduler: job name -> sequence of job objects of that name
    pc,         \* caller -> position inside run_job
    call,       \* caller -> [name, manifest] the arguments of its run_job call
    elapsed,    \* caller -> time.time() - start inside wait_until_job_deleted
    log,        \* caller -> scheduler requests issued by the current call
    result      \* caller -> what the current call returned or raised

dataVars  == <<series, frame, dl, volume>>
shardVars == <<stage, items, manifest, run, series, frame, dl, volume>>
jobVars   == <<jobs, pc, call, elapsed, log, result>>
vars      == <<stage, items, manifest, run, series, frame, dl, volume,
               jobs, pc, call, elapsed, log, result>>

----------------------------------------------------------------------------
(* Bounds of the model *)

MaxLen == 3            \* longest input sequence
MaxTotal == 3          \* largest JOB_COMPLETIONS / JOB_COMPLETION_INDEX given by hand
MaxParallelism == 2    \* largest _parallelism a trigger is called with

Items == {"a", "b"}

Stages == {"sources", "filter", "correlator"}

Range(s) == {s[k] : k \in DOMAIN s}

Min(a, b) == IF a < b THEN a ELSE b
Max(a, b) == IF a < b THEN b ELSE a

SeqsUpTo(S, n) == UNION {[1..k -> S] : k \in 0..n}

----------------------------------------------------------------------------
(* Python semantics used by split_work *)

\* a % b of Python for a >= 0 and b # 0: the result has the sign of b
PyMod(a, b) ==
    IF b > 0 THEN a % b
    ELSE LET m == a % (0 - b) IN IF m = 0 THEN 0 ELSE m + b

\* enumerate(items): the pairs (i, item), i from 0
Enumerate(s) == [k \in DOMAIN s |-> <<k - 1, s[k]>>]

\* a function returning normally / raising
Return(v) == [raised |-> "none", value |-> v]
Raise(e)  == [raised |-> e, value |-> <<>>]

RECURSIVE Comprehension_FromOne(_, _, _)
\* the comprehension over enumerate(items, 1)
Comprehension_FromOne(pairs, index, total) ==
    IF pairs = <<>> THEN <<>>
    ELSE LET p == Head(pairs)
             rest == Comprehension_FromOne(Tail(pairs), index, total)
         IN IF PyMod(p[1] + 1, total) = index THEN <<p[2]>> \o rest ELSE rest

RECURSIVE Comprehension(_, _, _)
\* [item for i, item in pairs if i % total == index]
Comprehension(pairs, index, total) ==
    IF pairs = <<>> THEN <<>>
    ELSE LET p == Head(pairs)
             rest == Comprehension(Tail(pairs), index, total)
         IN IF PyMod(p[1], total) = index THEN <<p[2]>> \o rest ELSE rest

\* items[start::step] of Python, step # 0 (start clamped as list slicing does)
SliceFrom(s, start, step) ==
    LET n == Len(s) IN
    IF step > 0
    THEN LET b == IF start < 0 THEN Max(start + n, 0) ELSE Min(start, n)
             cnt == IF b >= n THEN 0 ELSE ((n - b - 1) \div step) + 1
         IN [k \in 1..cnt |-> s[b + (k - 1) * step + 1]]
    ELSE LET b == IF start < 0
                  THEN (IF start + n < 0 THEN 0 - 1 ELSE start + n)
                  ELSE Min(start, n - 1)
             cnt == IF b < 0 THEN 0 ELSE (b \div (0 - step)) + 1
         IN [k \in 1..cnt |-> s[b + (k - 1) * step + 1]]

----------------------------------------------------------------------------
(* The work partitioner *)

\* the comprehension, had it tested i // total == index
split_work_modulo_Blocks(its, index, total) ==
    IF total = 0 /\ its # <<>>
    THEN Raise("ZeroDivisionError")
    ELSE LET cnt == Max(0, Min(total, Len(its) - index * total))
         IN Return([k \in 1..cnt |-> its[index * total + k]])

\* app/filter.py, app/correlator.py
split_work_modulo(its, index, total) ==
    IF total = 0 /\ its # <<>>
    THEN Raise("ZeroDivisionError")
    ELSE Return(Comprehension(Enumerate(its), index, total))

\* the slice written items[index:total]
split_work_slice_Stop(its, index, total) ==
    IF total = 0
    THEN Raise("ValueError")
    ELSE Return(SubSeq(its, Max(index, 0) + 1, Min(Max(total, 0), Len(its))))

\* the slice written items[index + 1::total]
split_work_slice_FromNext(its, index, total) ==
    IF total = 0
    THEN Raise("ValueError")
    ELSE Return(SliceFrom(its, index + 1, total))

\* app/sources.py
split_work_slice(its, index, total) ==
    IF total = 0
    THEN Raise("ValueError")
    ELSE Return(SliceFrom(its, index, total))

\* the split_work the stage's program defines
split_work(st, its, index, total) ==
    IF st = "sources"
    THEN split_work_slice(its, index, total)
    ELSE split_work_modulo(its, index, total)

----------------------------------------------------------------------------
(* Job manifests (api/kube/manifests.py) *)

NoJob == [kind |-> "none"]

\* str(v) of an environment value, and int(s) of the text read back
ToStr(v) == [text |-> v]
ParseInt(s) == s.text

\* V1EnvVar(name=k, value=str(v)) for k, v in env.items()
EnvVars(env) == [k \in DOMAIN env |-> ToStr(env[k])]

NoEnv == [k \in {} |-> 0]

base_job(name, image, command, parallelism, env) ==
    [kind |-> "Job",
     metadata |-> [name |-> name],
     spec |-> [completions |-> parallelism,
               parallelism |-> parallelism,
               completion_mode |-> "Indexed",
               backoff_limit |-> 1,
               restart_policy |-> "Never",
               container |-> [name |-> name,
                              image |-> image,
                              command |-> command,
                              env |-> EnvVars(env)]]]

icolcap_job(start, end) ==
    base_job("icolcap-job", "mediacorr-icolcap:latest", "app.icolcap", 1,
             [k \in {"START", "END"} |-> IF k = "START" THEN start ELSE end])

sources_job(parallelism, from, to, records) ==
    base_job("sources-job", "mediacorr-sources:latest", "app.sources", parallelism,
             [k \in {"FROM_YEAR", "TO_YEAR", "MAX_RECORDS"} |->
                 IF k = "FROM_YEAR" THEN from ELSE IF k = "TO_YEAR" THEN to ELSE records])

ingestor_job(parallelism) ==
    base_job("ingestor-job", "mediacorr-ingestor:latest", "app.ingestor", parallelism, NoEnv)

filter_job(parallelism) ==
    base_job("filter-job", "mediacorr-filter:latest", "app.filter", parallelism, NoEnv)

classifier_job(parallelism) ==
    base_job("classifier-job", "mediacorr-classifier:latest", "app.classifier", parallelism, NoEnv)

correlator_job(parallelism) ==
    base_job("correlator-job", "mediacorr-correlator:latest", "app.correlator", parallelism, NoEnv)

\* the manifest the trigger of a sharded stage submits (defaults of api/main.py)
StageJob(st, parallelism) ==
    IF st = "sources" THEN sources_job(parallelism, 2024, 2025, 50)
    ELSE IF st = "ingestor" THEN ingestor_job(parallelism)
    ELSE IF st = "filter" THEN filter_job(parallelism)
    ELSE IF st = "classifier" THEN classifier_job(parallelism)
    ELSE correlator_job(parallelism)

----------------------------------------------------------------------------
(* The environment of a shard process *)

\* os.environ of replica i of an Indexed job: the container's env entries plus
\* the completion index the scheduler sets for Indexed completion mode
PodEnv(m, i) ==
    LET e == m.spec.container.env IN
    IF m.spec.completion_mode = "Indexed"
    THEN [k \in DOMAIN e \cup {"JOB_COMPLETION_INDEX"} |->
             IF k = "JOB_COMPLETION_INDEX" THEN ToStr(i) ELSE e[k]]
    ELSE e

\* os.environ of a process started by hand with both values set
HandEnv(i, t) ==
    [k \in {"JOB_COMPLETION_INDEX", "JOB_COMPLETIONS"} |->
        IF k = "JOB_COMPLETION_INDEX" THEN ToStr(i) ELSE ToStr(t)]

\* os.environ.get(key, default)
EnvGet(env, key, default) == IF key \in DOMAIN env THEN env[key] ELSE default

JOB_INDEX(env) == ParseInt(EnvGet(env, "JOB_COMPLETION_INDEX", ToStr(0)))
JOB_TOTAL(env) == ParseInt(EnvGet(env, "JOB_COMPLETIONS", ToStr(1)))

----------------------------------------------------------------------------
(* The shard process: split the input, then work on the own share *)

NoRun == [called |-> FALSE]

\* the invocation, had split_work taken its share out of the input list
ShardProcess_Consuming(env, by) ==
    LET index == JOB_INDEX(env)
        total == JOB_TOTAL(env)
        r == split_work(stage, items, index, total)
    IN /\ run' = [called |-> TRUE,
                  tick |-> IF run.called THEN 1 - run.tick ELSE 0,
                  again |-> run.called /\ run.index = index /\ run.total = total,
                  by |-> by,
                  index |-> index,
                  total |-> total,
                  raised |-> r.raised,
                  my |-> r.value,
                  processed |-> IF r.raised = "none" THEN r.value ELSE <<>>]
       /\ items' = SubSeq(items, Len(r.value) + 1, Len(items))
       /\ UNCHANGED <<stage, manifest, dataVars>>

\* one invocation of the stage's program under os.environ = env
ShardProcess(env, by) ==
    LET index == JOB_INDEX(env)
        total == JOB_TOTAL(env)
        r == split_work(stage, items, index, total)
    IN /\ run' = [called |-> TRUE,
                  tick |-> IF run.called THEN 1 - run.tick ELSE 0,
                  again |-> run.called /\ run.index = index /\ run.total = total,
                  by |-> by,
                  index |-> index,
                  total |-> total,
                  raised |-> r.raised,
                  my |-> r.value,
                  processed |-> IF r.raised = "none" THEN r.value ELSE <<>>]
       /\ UNCHANGED <<stage, items, manifest, dataVars>>

\* POST /download, /filter, /analysis: the stage's job is built and submitted
Trigger(parallelism) ==
    /\ manifest' = StageJob(stage, parallelism)
    /\ run' = NoRun
    /\ UNCHANGED <<stage, items, dataVars, jobVars>>

\* replica i of the submitted job runs
RunReplica(i) ==
    /\ manifest # NoJob
    /\ i \in 0..(manifest.spec.completions - 1)
    /\ ShardProcess(PodEnv(manifest, i), "pod")
    /\ UNCHANGED jobVars

\* the program is started with JOB_COMPLETION_INDEX = i, JOB_COMPLETIONS = t
RunByHand(i, t) ==
    /\ ShardProcess(HandEnv(i, t), "hand")
    /\ UNCHANGED jobVars

----------------------------------------------------------------------------
(* The cluster scheduler, as the BatchV1Api calls of api/kube/jobs.py see it *)

Timeout == 30          \* wait_until_job_deleted(batch, job_name, timeout=30)

Callers == {1, 2}

Endpoints == {"icolcap", "download", "process", "filter", "sentiment", "analysis"}

\* the calls, had /sentiment passed the manifest of the filter stage
EndpointCall_Crossed(e, parallelism) ==
    IF e = "icolcap" THEN
        [job_name |-> "icolcap-job", job_manifest |-> icolcap_job("2024-01-01", "2025-01-01")]
    ELSE IF e = "download" THEN
        [job_name |-> "sources-job", job_manifest |-> sources_job(parallelism, 2024, 2025, 50)]
    ELSE IF e = "process" THEN
        [job_name |-> "ingestor-job", job_manifest |-> ingestor_job(parallelism)]
    ELSE IF e = "filter" THEN
        [job_name |-> "filter-job", job_manifest |-> filter_job(parallelism)]
    ELSE IF e = "sentiment" THEN
        [job_name |-> "classifier-job", job_manifest |-> filter_job(parallelism)]
    ELSE
        [job_name |-> "correlator-job", job_manifest |-> correlator_job(parallelism)]

\* the run_job call each trigger of api/main.py makes
EndpointCall(e, parallelism) ==
    IF e = "icolcap" THEN
        [job_name |-> "icolcap-job", job_manifest |-> icolcap_job("2024-01-01", "2025-01-01")]
    ELSE IF e = "download" THEN
        [job_name |-> "sources-job", job_manifest |-> sources_job(parallelism, 2024, 2025, 50)]
    ELSE IF e = "process" THEN
        [job_name |-> "ingestor-job", job_manifest |-> ingestor_job(parallelism)]
    ELSE IF e = "filter" THEN
        [job_name |-> "filter-job", job_manifest |-> filter_job(parallelism)]
    ELSE IF e = "sentiment" THEN
        [job_name |-> "classifier-job", job_manifest |-> classifier_job(parallelism)]
    ELSE
        [job_name |-> "correlator-job", job_manifest |-> correlator_job(parallelism)]

Names == {EndpointCall(e, 1).job_name : e \in Endpoints}

\* fault statuses the scheduler may answer any request with
ApiFaults == {500}

\* the object the scheduler stores for a created job
NewJob(m) == [spec |-> m, phase |-> "Created", failures |-> 0, deleting |-> FALSE]

\* the V1Job a read answers with: its name and the counts of its status
JobRecord(j) ==
    [name |-> j.spec.metadata.name,
     active |-> IF j.phase = "Running" THEN j.spec.spec.parallelism ELSE 0,
     succeeded |-> IF j.phase = "Succeeded" THEN j.spec.spec.completions ELSE 0,
     failed |-> j.failures]

\* create_namespaced_job(namespace, body): the possible answers and scheduler states
create_namespaced_job(js, body) ==
    LET n == body.metadata.name IN
    {IF js[n] = <<>>
     THEN [rc |-> 201, jobs |-> [js EXCEPT ![n] = Append(js[n], NewJob(body))]]
     ELSE [rc |-> 409, jobs |-> js]}
    \cup {[rc |-> f, jobs |-> js] : f \in ApiFaults}

\* delete_namespaced_job(name, namespace, propagation_policy)
delete_namespaced_job(js, n, policy) ==
    {IF js[n] = <<>>
     THEN [rc |-> 404, jobs |-> js]
     ELSE IF policy = "Foreground"
     THEN [rc |-> 200, jobs |-> [js EXCEPT ![n] = [k \in DOMAIN js[n] |->
                                     [js[n][k] EXCEPT !.deleting = TRUE]]]]
     ELSE [rc |-> 200, jobs |-> [js EXCEPT ![n] = <<>>]]}
    \cup {[rc |-> f, jobs |-> js] : f \in ApiFaults}

\* read_namespaced_job(name, namespace)
read_namespaced_job(js, n) ==
    {IF js[n] = <<>> THEN [rc |-> 404, jobs |-> js] ELSE [rc |-> 200, jobs |-> js]}
    \cup {[rc |-> f, jobs |-> js] : f \in ApiFaults}

----------------------------------------------------------------------------
(* run_job and wait_until_job_deleted *)

NoCall == [job_name |-> "", job_manifest |-> NoJob]

Pending == [kind |-> "none"]
Returned(status, job) == [kind |-> "return", status |-> status, job |-> job]
ApiException(status) == [kind |-> "ApiException", status |-> status]
RuntimeError == [kind |-> "RuntimeError", status |-> 0]

\* a request to the scheduler: what was asked, when (time since the wait began), the answer
Request(op, name, body, policy, at, rc) ==
    [op |-> op, name |-> name, body |-> body, policy |-> policy, at |-> at, rc |-> rc]

\* the except branch, had it reported the conflict instead of restarting
first_create_AlreadyExists(job_name, rc) ==
    IF rc = 201 THEN [pc |-> "idle", result |-> Returned("created", job_name)]
    ELSE IF rc # 409 THEN [pc |-> "idle", result |-> ApiException(rc)]
    ELSE [pc |-> "idle", result |-> Returned("already_exists", job_name)]

\* the except branch, had it swallowed the conflict
first_create_Swallow(job_name, rc) ==
    IF rc = 201 \/ rc = 409 THEN [pc |-> "idle", result |-> Returned("created", job_name)]
    ELSE [pc |-> "idle", result |-> ApiException(rc)]

\* run_job, from the first create to the decision of the except branch
first_create(job_name, rc) ==
    IF rc = 201 THEN [pc |-> "idle", result |-> Returned("created", job_name)]
    ELSE IF rc # 409 THEN [pc |-> "idle", result |-> ApiException(rc)]
    ELSE [pc |-> "delete", result |-> Pending]

\* the delete, had run_job not waited for the deletion
after_delete_NoWait(rc) ==
    IF rc = 200 THEN [pc |-> "recreate", result |-> Pending]
    ELSE [pc |-> "idle", result |-> ApiException(rc)]

\* run_job: the delete of the except branch
after_delete(rc) ==
    IF rc = 200 THEN [pc |-> "wait", result |-> Pending]
    ELSE [pc |-> "idle", result |-> ApiException(rc)]

\* the loop, had it left with break instead of raise at the deadline
wait_iteration_Break(rc, waited) ==
    IF rc = 404 THEN [pc |-> "recreate", result |-> Pending, sleep |-> 0]
    ELSE IF rc # 200 THEN [pc |-> "idle", result |-> ApiException(rc), sleep |-> 0]
    ELSE IF waited > Timeout THEN [pc |-> "recreate", result |-> Pending, sleep |-> 0]
    ELSE [pc |-> "wait", result |-> Pending, sleep |-> 1]

\* the loop, had it caught every ApiException other than 404 and polled again
wait_iteration_Retry(rc, waited) ==
    IF rc = 404 THEN [pc |-> "recreate", result |-> Pending, sleep |-> 0]
    ELSE IF waited > Timeout THEN [pc |-> "idle", result |-> RuntimeError, sleep |-> 0]
    ELSE [pc |-> "wait", result |-> Pending, sleep |-> 1]

\* the loop, had it given up at the deadline rather than after it
wait_iteration_AtDeadline(rc, waited) ==
    IF rc = 404 THEN [pc |-> "recreate", result |-> Pending, sleep |-> 0]
    ELSE IF rc # 200 THEN [pc |-> "idle", result |-> ApiException(rc), sleep |-> 0]
    ELSE IF waited >= Timeout THEN [pc |-> "idle", result |-> RuntimeError, sleep |-> 0]
    ELSE [pc |-> "wait", result |-> Pending, sleep |-> 1]

\* one iteration of the loop of wait_until_job_deleted
wait_iteration(rc, waited) ==
    IF rc = 404 THEN [pc |-> "recreate", result |-> Pending, sleep |-> 0]
    ELSE IF rc # 200 THEN [pc |-> "idle", result |-> ApiException(rc), sleep |-> 0]
    ELSE IF waited > Timeout THEN [pc |-> "idle", result |-> RuntimeError, sleep |-> 0]
    ELSE [pc |-> "wait", result |-> Pending, sleep |-> 1]

\* the second create, had its answer not been looked at
second_create_Unchecked(job_name, rc) ==
    [pc |-> "idle", result |-> Returned("restarted", job_name)]

\* run_job: the second create
second_create(job_name, rc) ==
    IF rc = 201 THEN [pc |-> "idle", result |-> Returned("restarted", job_name)]
    ELSE [pc |-> "idle", result |-> ApiException(rc)]

\* job_status, had it answered an unknown name with empty counts
job_status_Lenient(rc, job) ==
    IF rc = 200
    THEN [kind |-> "status", name |-> job.name, succeeded |-> job.succeeded,
          failed |-> job.failed, active |-> job.active]
    ELSE [kind |-> "status", name |-> "", succeeded |-> 0, failed |-> 0, active |-> 0]

\* job_status: the dictionary built from the job read, or the read's exception
job_status(rc, job) ==
    IF rc = 200
    THEN [kind |-> "status", name |-> job.name, succeeded |-> job.succeeded,
          failed |-> job.failed, active |-> job.active]
    ELSE ApiException(rc)

\* GET /status/{job_name}
GetStatus(c, n) ==
    /\ pc[c] = "idle"
    /\ \E o \in read_namespaced_job(jobs, n) :
          /\ call' = [call EXCEPT ![c] = [job_name |-> n, job_manifest |-> NoJob]]
          /\ jobs' = o.jobs
          /\ log' = [log EXCEPT ![c] = <<Request("read", n, NoJob, "", 0, o.rc)>>]
          /\ result' = [result EXCEPT ![c] =
                           job_status(o.rc, IF o.rc = 200 THEN JobRecord(jobs[n][1]) ELSE NoJob)]
    /\ UNCHANGED <<pc, elapsed, shardVars>>

\* the delete, had it asked for background propagation
RunJobDelete_Background(c) ==
    /\ pc[c] = "delete"
    /\ \E o \in delete_namespaced_job(jobs, call[c].job_name, "Background") :
          LET d == after_delete(o.rc) IN
          /\ jobs' = o.jobs
          /\ log' = [log EXCEPT ![c] =
                        Append(@, Request("delete", call[c].job_name, NoJob, "Background", 0, o.rc))]
          /\ pc' = [pc EXCEPT ![c] = d.pc]
          /\ result' = [result EXCEPT ![c] = d.result]
          /\ elapsed' = [elapsed EXCEPT ![c] = 0]
    /\ UNCHANGED <<call, shardVars>>

\* a trigger endpoint calls run_job, which issues the first create
RunJob(c, e, parallelism) ==
    /\ pc[c] = "idle"
    /\ LET a == EndpointCall(e, parallelism) IN
       \E o \in create_namespaced_job(jobs, a.job_manifest) :
          LET d == first_create(a.job_name, o.rc) IN
          /\ call' = [call EXCEPT ![c] = a]
          /\ jobs' = o.jobs
          /\ log' = [log EXCEPT ![c] =
                        <<Request("create", a.job_manifest.metadata.name, a.job_manifest, "", 0, o.rc)>>]
          /\ pc' = [pc EXCEPT ![c] = d.pc]
          /\ result' = [result EXCEPT ![c] = d.result]
          /\ elapsed' = [elapsed EXCEPT ![c] = 0]
    /\ UNCHANGED shardVars

\* run_job deletes the job found under job_name; the wait starts its clock
RunJobDelete(c) ==
    /\ pc[c] = "delete"
    /\ \E o \in delete_namespaced_job(jobs, call[c].job_name, "Foreground") :
          LET d == after_delete(o.rc) IN
          /\ jobs' = o.jobs
          /\ log' = [log EXCEPT ![c] =
                        Append(@, Request("delete", call[c].job_name, NoJob, "Foreground", 0, o.rc))]
          /\ pc' = [pc EXCEPT ![c] = d.pc]
          /\ result' = [result EXCEPT ![c] = d.result]
          /\ elapsed' = [elapsed EXCEPT ![c] = 0]
    /\ UNCHANGED <<call, shardVars>>

\* wait_until_job_deleted: read, then return, raise, or sleep one time unit
WaitUntilJobDeleted(c) ==
    /\ pc[c] = "wait"
    /\ \E o \in read_namespaced_job(jobs, call[c].job_name) :
          LET d == wait_iteration(o.rc, elapsed[c]) IN
          /\ jobs' = o.jobs
          /\ log' = [log EXCEPT ![c] =
                        Append(@, Request("read", call[c].job_name, NoJob, "", elapsed[c], o.rc))]
          /\ pc' = [pc EXCEPT ![c] = d.pc]
          /\ result' = [result EXCEPT ![c] = d.result]
          /\ elapsed' = [elapsed EXCEPT ![c] = @ + d.sleep]
    /\ UNCHANGED <<call, shardVars>>

\* run_job creates the job again and returns
RunJobRecreate(c) ==
    /\ pc[c] = "recreate"
    /\ \E o \in create_namespaced_job(jobs, call[c].job_manifest) :
          LET d == second_create(call[c].job_name, o.rc) IN
          /\ jobs' = o.jobs
          /\ log' = [log EXCEPT ![c] =
                        Append(@, Request("create", call[c].job_manifest.metadata.name,
                                          call[c].job_manifest, "", elapsed[c], o.rc))]
          /\ pc' = [pc EXCEPT ![c] = d.pc]
          /\ result' = [result EXCEPT ![c] = d.result]
    /\ UNCHANGED <<call, elapsed, shardVars>>

----------------------------------------------------------------------------
(* The scheduler's own steps *)

\* the job's pods start
JobStarts(n) ==
    /\ jobs[n] # <<>>
    /\ jobs[n][1].phase = "Created"
    /\ ~jobs[n][1].deleting
    /\ jobs' = [jobs EXCEPT ![n][1].phase = "Running"]
    /\ UNCHANGED <<pc, call, elapsed, log, result, shardVars>>

\* the job's pods end: all succeed, or one fails; restart_policy "Never" with
\* backoff_limit lets the scheduler replace a failed pod until more than
\* backoff_limit pods have failed, and only then is the job Failed
JobEnds(n, phase) ==
    /\ jobs[n] # <<>>
    /\ jobs[n][1].phase = "Running"
    /\ ~jobs[n][1].deleting
    /\ jobs' = IF phase = "Succeeded"
               THEN [jobs EXCEPT ![n][1].phase = phase]
               ELSE IF jobs[n][1].failures + 1 > jobs[n][1].spec.spec.backoff_limit
               THEN [jobs EXCEPT ![n][1].phase = phase, ![n][1].failures = @ + 1]
               ELSE [jobs EXCEPT ![n][1].failures = @ + 1]
    /\ UNCHANGED <<pc, call, elapsed, log, result, shardVars>>

\* foreground deletion ends: the dependents are gone, the job object is removed
Finalise(n) ==
    /\ jobs[n] # <<>>
    /\ jobs[n][1].deleting
    /\ jobs' = [jobs EXCEPT ![n] = Tail(@)]
    /\ UNCHANGED <<pc, call, elapsed, log, result, shardVars>>

----------------------------------------------------------------------------
(* utils/causality.py: lagged_correlation and granger_test.  A value of a
   column is TRUE when it is a number and FALSE when it is NaN; the numbers
   themselves, and so the coefficients and p-values, are left out. *)

MaxObs == 22
MaxLagArg == 15
MinObsCorrelation == 10
MinObsGranger == 20

NoFrame == [fn |-> "none"]
InsufficientData == "Datos insuficientes para Granger"
LibraryFault == "statsmodels"

Column(df, col) == [i \in 1..Len(df) |-> df[i][col]]

\* Series.shift(lag): the value of lag rows earlier, NaN for the first lag rows
Shift(column, lag) ==
    [i \in 1..Len(column) |-> IF i - lag >= 1 THEN column[i - lag] ELSE FALSE]

\* pd.concat([a, b], axis=1)
Concat(a, b) == [i \in 1..Len(a) |-> <<a[i], b[i]>>]

\* DataFrame.dropna(): the rows without a NaN
IsComplete(row) == row[1] /\ row[2]
Dropna(rows) == SelectSeq(rows, IsComplete)

RECURSIVE lagged_correlation_loop_Strict(_, _, _, _)
\* lagged_correlation, had it asked for more than ten observations
lagged_correlation_loop_Strict(df, lag, max_lag, results) ==
    IF lag > max_lag THEN results
    ELSE LET shifted == Shift(Column(df, "sentiment"), lag)
             valid == Dropna(Concat(shifted, Column(df, "target")))
         IN lagged_correlation_loop_Strict(df, lag + 1, max_lag,
                IF Len(valid) <= MinObsCorrelation
                THEN results
                ELSE Append(results, [lag |-> lag, n_obs |-> Len(valid)]))

RECURSIVE lagged_correlation_loop(_, _, _, _)
\* the loop of lagged_correlation from lag on
lagged_correlation_loop(df, lag, max_lag, results) ==
    IF lag > max_lag THEN results
    ELSE LET shifted == Shift(Column(df, "sentiment"), lag)
             valid == Dropna(Concat(shifted, Column(df, "target")))
         IN lagged_correlation_loop(df, lag + 1, max_lag,
                IF Len(valid) < MinObsCorrelation
                THEN results
                ELSE Append(results, [lag |-> lag, n_obs |-> Len(valid)]))

lagged_correlation(df, max_lag) ==
    Return(lagged_correlation_loop(df, 0, max_lag, <<>>))

\* statsmodels' grangercausalitytests: one result per lag 1..maxlag, or a
\* fault of its own (a lag it cannot fit on the data, a singular regression)
grangercausalitytests(data, maxlag) ==
    {Return([k \in 1..maxlag |-> [lag |-> k]]), Raise(LibraryFault)}

\* granger_test, had it set the lags aside before counting
granger_test_Lagged(df, max_lag) ==
    LET data == Dropna(Concat(Column(df, "target"), Column(df, "sentiment")))
    IN IF Len(data) - max_lag < MinObsGranger
       THEN {Raise(InsufficientData)}
       ELSE grangercausalitytests(data, max_lag)

\* granger_test: the outcomes it can end with
granger_test(df, max_lag) ==
    LET data == Dropna(Concat(Column(df, "target"), Column(df, "sentiment")))
    IN IF Len(data) < MinObsGranger
       THEN {Raise(InsufficientData)}
       ELSE grangercausalitytests(data, max_lag)

LaggedCorrelation(max_lag) ==
    /\ frame' = [fn |-> "lagged_correlation", max_lag |-> max_lag,
                 res |-> lagged_correlation(series, max_lag)]
    /\ UNCHANGED <<stage, items, manifest, run, series, dl, volume, jobVars>>

GrangerTest(max_lag) ==
    /\ \E o \in granger_test(series, max_lag) :
          frame' = [fn |-> "granger_test", max_lag |-> max_lag, res |-> o]
    /\ UNCHANGED <<stage, items, manifest, run, series, dl, volume, jobVars>>

----------------------------------------------------------------------------
(* src/download.py: month_iter and download_one *)

MaxRetries == 2
YearSpan == 2

Urls == {"a.warc.gz", "b.warc.gz"}
Backoffs == {1, 2}

\* how one pass of the try block ends: the download completes; requests.get
\* or raise_for_status raises a RequestException before the file is opened;
\* iter_content raises one after open(out_path, "wb"); a write raises OSError
AttemptOutcomes == {"ok", "RequestException", "ChunkedEncodingError", "OSError"}

Date(y, m, d) == [year |-> y, month |-> m, day |-> d]

\* m += 1, had the year rolled over one month early
next_month_Early(y, m) ==
    IF m + 1 = 12 THEN <<y + 1, 1>> ELSE <<y, m + 1>>

\* m += 1; if m == 13: m = 1; y += 1
next_month(y, m) ==
    IF m + 1 = 13 THEN <<y + 1, 1>> ELSE <<y, m + 1>>

RECURSIVE month_iter_from(_, _, _, _)
\* the while loop of month_iter, from (y, m) on
month_iter_from(y, m, end_date, yielded) ==
    IF (y < end_date.year) \/ (y = end_date.year /\ m <= end_date.month)
    THEN LET n == next_month(y, m)
         IN month_iter_from(n[1], n[2], end_date, Append(yielded, <<y, m>>))
    ELSE yielded

\* list(month_iter(start_date, end_date))
month_iter(start_date, end_date) ==
    month_iter_from(start_date.year, start_date.month, end_date, <<>>)

\* the dates main() has parsed from --start and --end
Parsed(start_date, end_date) ==
    [fn |-> "main", start_date |-> start_date, end_date |-> end_date, res |-> Return(<<>>)]

MonthIter ==
    /\ frame.fn = "main"
    /\ frame' = [frame EXCEPT !.fn = "month_iter",
                              !.res = Return(month_iter(frame.start_date, frame.end_date))]
    /\ UNCHANGED <<stage, items, manifest, run, series, dl, volume, jobVars>>

RECURSIVE Pow(_, _)
\* backoff ** attempt
Pow(b, n) == IF n = 0 THEN 1 ELSE b * Pow(b, n - 1)

NoDownload ==
    [pc |-> "idle", files |-> [u \in Urls |-> "absent"], url |-> "", retries |-> 0,
     backoff |-> 0, attempt |-> 0, last_err |-> "", requests |-> 0, slept |-> <<>>,
     result |-> Pending]

Result(fname, success, message) ==
    [kind |-> "return", fname |-> fname, success |-> success, message |-> message]

\* the except branch, had it slept after every failed attempt
after_failure_AlwaysSleep(attempt, retries, backoff) ==
    [attempt |-> attempt + 1, slept |-> <<Pow(backoff, attempt + 1)>>,
     again |-> attempt + 1 <= retries]

\* the except branch: attempt += 1, then sleep and go round again, or break
after_failure(attempt, retries, backoff) ==
    IF attempt + 1 <= retries
    THEN [attempt |-> attempt + 1, slept |-> <<Pow(backoff, attempt + 1)>>, again |-> TRUE]
    ELSE [attempt |-> attempt + 1, slept |-> <<>>, again |-> FALSE]

\* download_one up to the head of its loop
DownloadOne(url, retries, backoff) ==
    /\ dl.pc \in {"idle", "done"}
    /\ dl' = IF dl.files[url] # "absent"
             THEN [dl EXCEPT !.pc = "done", !.url = url, !.retries = retries,
                             !.backoff = backoff, !.attempt = 0, !.last_err = "",
                             !.requests = 0, !.slept = <<>>,
                             !.result = Result(url, TRUE, "exists")]
             ELSE IF 0 <= retries
             THEN [dl EXCEPT !.pc = "loop", !.url = url, !.retries = retries,
                             !.backoff = backoff, !.attempt = 0, !.last_err = "",
                             !.requests = 0, !.slept = <<>>, !.result = Pending]
             ELSE [dl EXCEPT !.pc = "done", !.url = url, !.retries = retries,
                             !.backoff = backoff, !.attempt = 0, !.last_err = "",
                             !.requests = 0, !.slept = <<>>,
                             !.result = Result(url, FALSE, "")]
    /\ UNCHANGED <<stage, items, manifest, run, series, frame, volume, jobVars>>

\* one pass of the while loop of download_one
Attempt(outcome) ==
    /\ dl.pc = "loop"
    /\ LET f == after_failure(dl.attempt, dl.retries, dl.backoff)
           opened == [dl.files EXCEPT ![dl.url] = "partial"]
       IN dl' =
          IF outcome = "ok"
          THEN [dl EXCEPT !.pc = "done", !.requests = @ + 1,
                          !.files = [dl.files EXCEPT ![dl.url] = "complete"],
                          !.result = Result(dl.url, TRUE, "ok")]
          ELSE IF outcome = "OSError"
          THEN [dl EXCEPT !.pc = "done", !.requests = @ + 1, !.files = opened,
                          !.result = [kind |-> "OSError"]]
          ELSE [dl EXCEPT !.pc = IF f.again THEN "loop" ELSE "done",
                          !.requests = @ + 1,
                          !.files = IF outcome = "ChunkedEncodingError" THEN opened ELSE @,
                          !.last_err = outcome,
                          !.attempt = f.attempt,
                          !.slept = @ \o f.slept,
                          !.result = IF f.again THEN Pending
                                     ELSE Result(dl.url, FALSE, outcome)]
    /\ UNCHANGED <<stage, items, manifest, run, series, frame, volume, jobVars>>

----------------------------------------------------------------------------
(* The stage programs and the files they write under data/ *)

DefaultLastLag == 10

FileName(prefix, n, ext) == [prefix |-> prefix, n |-> n, ext |-> ext]
ReportKey(prefix, lag) == [prefix |-> prefix, lag |-> lag]
Table(key, rows) == [key |-> key, rows |-> rows]
Written(file, content) == [file |-> file, content |-> content]
Outcome(raised, files, report) == [raised |-> raised, files |-> files, report |-> report]

\* max_lags or list(range(1, 11))
all_lags(max_lags) ==
    IF max_lags = <<>> THEN [k \in 1..DefaultLastLag |-> k] ELSE max_lags

\* the share, had every shard taken the whole list
my_lags_Unsplit(lags, index, total) == Return(lags)

my_lags(lags, index, total) == split_work_modulo(lags, index, total)

\* the correlation table of an experiment, had it held the row of its own lag only
lag_corr_OwnLag(df, lag) ==
    SelectSeq(lagged_correlation(df, lag).value, LAMBDA r : r.lag = lag)

\* lagged_correlation(df, max_lag=lag).to_dict(orient="records")
lag_corr(df, lag) == lagged_correlation(df, lag).value

\* the plots after the loop, had every shard drawn them
GlobalArtifacts_Every(index) ==
    {Written(FileName("sentiment_vs_icolcap", 0, "png"), <<>>),
     Written(FileName("rolling_correlation", 0, "png"), <<>>)}

\* if JOB_INDEX == 0: the two plots over the whole series
GlobalArtifacts(index) ==
    IF index = 0
    THEN {Written(FileName("sentiment_vs_icolcap", 0, "png"), <<>>),
          Written(FileName("rolling_correlation", 0, "png"), <<>>)}
    ELSE {}

RECURSIVE experiments(_, _, _, _, _, _)
\* the loop over my_lags from position k on, and what follows it: the
\* outcomes the invocation can end with
experiments(df, index, lags, k, files, report) ==
    IF k > Len(lags)
    THEN {Outcome("none",
                  files \cup GlobalArtifacts(index)
                        \cup {Written(FileName("summary_part", index, "json"), report)},
                  report)}
    ELSE LET lag == lags[k]
             lag_name == ReportKey("lagged_correlation_lag", lag)
             corr == Table(lag_name, lag_corr(df, lag))
             files1 == files \cup {Written(FileName("lagged_correlation_lag", lag, "csv"), <<corr>>),
                                   Written(FileName("lagged_correlation_lag", lag, "png"), <<>>)}
             report1 == Append(report, corr)
         IN UNION {
              IF g.raised # "none"
              THEN {Outcome(g.raised, files1, report1)}
              ELSE LET granger == Table(ReportKey("granger_lag", lag), g.value)
                   IN experiments(df, index, lags, k + 1,
                          files1 \cup {Written(FileName("granger_lag", lag, "csv"), <<granger>>)},
                          Append(report1, granger))
              : g \in granger_test(df, lag)}

\* app/correlator.py
run_full_analysis(df, env, max_lags) ==
    LET mine == my_lags(all_lags(max_lags), JOB_INDEX(env), JOB_TOTAL(env))
    IN IF mine.raised # "none"
       THEN {Outcome(mine.raised, {}, <<>>)}
       ELSE experiments(df, JOB_INDEX(env), mine.value, 1, {}, <<>>)

\* app/filter.py: a file of the share is written when some record matches
filter_many(files, env) ==
    LET mine == split_work_modulo(files, JOB_INDEX(env), JOB_TOTAL(env))
    IN IF mine.raised # "none"
       THEN {Outcome(mine.raised, {}, <<>>)}
       ELSE {Outcome("none", {Written(FileName("filtered_", f, ""), <<>>) : f \in matching}, <<>>)
                : matching \in SUBSET Range(mine.value)}

\* app/ingestor.py: news_<i>.json for the i-th archive of the listing; an
\* archive that cannot be read ends the loop
process_and_save(warc_paths) ==
    {Outcome(IF done = Len(warc_paths) THEN "none" ELSE "Exception",
             {Written(FileName("news_", i, ".json"), <<>>) : i \in 1..done}, <<>>)
        : done \in 0..Len(warc_paths)}

\* app/classifier.py: sentiment_<fname> for each file with records
analyze_many(files) ==
    {Outcome("none", {Written(FileName("sentiment_", f, ""), <<>>) : f \in classified}, <<>>)
        : classified \in SUBSET Range(files)}

\* the stage function, called in a process whose os.environ is env
StageFunction(st, its, df, env) ==
    IF st = "ingestor" THEN process_and_save(its)
    ELSE IF st = "filter" THEN filter_many(its, env)
    ELSE IF st = "classifier" THEN analyze_many(its)
    ELSE run_full_analysis(df, env, <<>>)

\* python -m app.<stage>: the module's __main__ block calls the stage function;
\* app/ingestor.py and app/classifier.py have no such block
ModuleMain(st, its, df, env) ==
    IF st \in {"ingestor", "classifier"}
    THEN {Outcome("none", {}, <<>>)}
    ELSE StageFunction(st, its, df, env)

\* the files of an outcome, each with the shard that wrote it
WritesOf(o, by, env) ==
    {[file |-> w.file, content |-> w.content, by |-> by,
      index |-> JOB_INDEX(env), total |-> JOB_TOTAL(env)] : w \in o.files}

\* volume keeps the writes of the shards that share a configuration: those of
\* the job's replicas, or those of the processes started with one total; frame
\* keeps how the invocation ended
Store(o, by, env) ==
    /\ volume' = (IF \A w \in volume : w.by = by /\ w.total = JOB_TOTAL(env)
                  THEN volume ELSE {}) \cup WritesOf(o, by, env)
    /\ frame' = [fn |-> stage, index |-> JOB_INDEX(env),
                 res |-> [raised |-> o.raised, value |-> <<>>]]
    /\ UNCHANGED <<stage, items, manifest, run, series, dl, jobVars>>

\* replica i of the stage's job runs its command
StagePod(i) ==
    /\ manifest # NoJob
    /\ i \in 0..(manifest.spec.completions - 1)
    /\ \E o \in ModuleMain(stage, items, series, PodEnv(manifest, i)) :
          Store(o, "pod", PodEnv(manifest, i))

\* the stage function is called in a process started with
\* JOB_COMPLETION_INDEX = i, JOB_COMPLETIONS = t
StageCall(i, t) ==
    \E o \in StageFunction(stage, items, series, HandEnv(i, t)) :
        Store(o, "hand", HandEnv(i, t))

\* the directory under data/ the job of that name writes, and the job whose
\* output it reads
OutputDir(n) ==
    IF n = "sources-job" THEN "data/warc"
    ELSE IF n = "ingestor-job" THEN "data/news"
    ELSE IF n = "filter-job" THEN "data/filtered"
    ELSE IF n = "classifier-job" THEN "data/sentiment"
    ELSE IF n = "correlator-job" THEN "data/analysis"
    ELSE "data/market"

Upstream(n) ==
    IF n = "ingestor-job" THEN "sources-job"
    ELSE IF n = "filter-job" THEN "ingestor-job"
    ELSE IF n = "classifier-job" THEN "filter-job"
    ELSE IF n = "correlator-job" THEN "classifier-job"
    ELSE "none"

\* a running pod of job n, whose module has a __main__ block, writes its
\* first output file
JobWrites(n) ==
    /\ jobs[n] # <<>>
    /\ jobs[n][1].phase = "Running"
    /\ n \notin {"ingestor-job", "classifier-job"}
    /\ volume' = volume \cup
          {[file |-> FileName(OutputDir(n), 0, ""), content |-> <<>>,
            by |-> "pod", index |-> 0, total |-> 1]}
    /\ UNCHANGED <<stage, items, manifest, run, series, frame, dl, jobVars>>

----------------------------------------------------------------------------
(* Specifications *)

InitJobs ==
    /\ jobs = [n \in Names |-> <<>>]
    /\ pc = [c \in Callers |-> "idle"]
    /\ call = [c \in Callers |-> NoCall]
    /\ elapsed = [c \in Callers |-> 0]
    /\ log = [c \in Callers |-> <<>>]
    /\ result = [c \in Callers |-> Pending]

InitShards ==
    /\ stage \in Stages
    /\ items \in SeqsUpTo(Items, MaxLen)
    /\ manifest = NoJob
    /\ run = NoRun
    /\ series = <<>>
    /\ frame = NoFrame
    /\ dl = NoDownload
    /\ volume = {}
    /\ InitJobs

NextShards ==
    \/ \E p \in 1..MaxParallelism : Trigger(p)
    \/ \E i \in 0..(MaxParallelism - 1) : RunReplica(i)
    \/ \E i \in (0 - 1)..MaxTotal, t \in (0 - 1)..MaxTotal : RunByHand(i, t)

SpecShards == InitShards /\ [][NextShards]_vars

\* the triggers, callers and parallelism the controller is exercised with
UsedEndpoints == {"filter", "analysis"}
UsedCallers == {1}

Init ==
    /\ stage = "filter"
    /\ items = <<>>
    /\ manifest = NoJob
    /\ run = NoRun
    /\ series = <<>>
    /\ frame = NoFrame
    /\ dl = NoDownload
    /\ volume = {}
    /\ InitJobs

Next ==
    \/ \E c \in UsedCallers, e \in UsedEndpoints, p \in 1..MaxParallelism : RunJob(c, e, p)
    \/ \E c \in UsedCallers : RunJobDelete(c)
    \/ \E c \in UsedCallers : WaitUntilJobDeleted(c)
    \/ \E c \in UsedCallers : RunJobRecreate(c)
    \/ \E n \in Names : JobStarts(n)
    \/ \E n \in Names, ph \in {"Succeeded", "Failed"} : JobEnds(n, ph)
    \/ \E n \in Names : Finalise(n)

Spec == Init /\ [][Next]_vars

\* two triggers of one stage served at the same time; the pods' own progress,
\* which no answer of the scheduler depends on, is left out
RaceCallers == {1, 2}
RaceEndpoints == {"filter"}
RaceParallelism == {1, MaxParallelism}

NextRace ==
    \/ \E c \in RaceCallers, e \in RaceEndpoints, p \in RaceParallelism : RunJob(c, e, p)
    \/ \E c \in RaceCallers : RunJobDelete(c)
    \/ \E c \in RaceCallers : WaitUntilJobDeleted(c)
    \/ \E c \in RaceCallers : RunJobRecreate(c)
    \/ \E n \in Names : Finalise(n)

SpecRace == Init /\ [][NextRace]_vars

\* the triggers of Spec together with status queries
StatusNames == {"filter-job", "icolcap-job"}

NextStatus ==
    \/ Next
    \/ \E c \in UsedCallers, n \in StatusNames : GetStatus(c, n)

SpecStatus == Init /\ [][NextStatus]_vars

\* the causality functions on every series of up to MaxObs days in which the
\* values of the first NanDays days may be missing
NanDays == 2

SeriesOf(n, nanS, nanT) ==
    [i \in 1..n |-> [sentiment |-> i \notin nanS, target |-> i \notin nanT]]

InitCausality ==
    /\ stage = "correlator"
    /\ items = <<>>
    /\ manifest = NoJob
    /\ run = NoRun
    /\ \E n \in 0..MaxObs, nanS \in SUBSET (1..NanDays), nanT \in SUBSET (1..NanDays) :
          series = SeriesOf(n, nanS, nanT)
    /\ frame = NoFrame
    /\ dl = NoDownload
    /\ volume = {}
    /\ InitJobs

NextCausality ==
    \/ \E m \in 0..MaxLagArg : LaggedCorrelation(m)
    \/ \E m \in 0..MaxLagArg : GrangerTest(m)

SpecCausality == InitCausality /\ [][NextCausality]_vars

\* the triggers of one stage, one at a time; the thread inside
\* wait_until_job_deleted keeps running, the scheduler owes no progress
NextWait ==
    \/ \E c \in UsedCallers : RunJob(c, "filter", 1)
    \/ \E c \in UsedCallers : RunJobDelete(c)
    \/ \E c \in UsedCallers : WaitUntilJobDeleted(c)
    \/ \E c \in UsedCallers : RunJobRecreate(c)
    \/ \E n \in Names : JobStarts(n)
    \/ \E n \in Names, ph \in {"Succeeded", "Failed"} : JobEnds(n, ph)
    \/ \E n \in Names : Finalise(n)

SpecWait ==
    /\ Init
    /\ [][NextWait]_vars
    /\ \A c \in UsedCallers : WF_vars(WaitUntilJobDeleted(c))

\* download_one called again and again, one call at a time; the thread in
\* the loop keeps running
InitDownload == Init

NextDownload ==
    \/ \E u \in Urls, r \in (0 - 1)..MaxRetries, b \in Backoffs : DownloadOne(u, r, b)
    \/ \E o \in AttemptOutcomes : Attempt(o)

SpecDownload ==
    /\ InitDownload
    /\ [][NextDownload]_vars
    /\ WF_vars(\E o \in AttemptOutcomes : Attempt(o))

\* month_iter on every pair of dates of YearSpan + 1 years
Dates == {Date(y, m, d) : y \in 2023..(2023 + YearSpan), m \in 1..12, d \in {1, 28}}

InitMonths ==
    /\ stage = "sources"
    /\ items = <<>>
    /\ manifest = NoJob
    /\ run = NoRun
    /\ series = <<>>
    /\ \E s \in Dates, e \in Dates : frame = Parsed(s, e)
    /\ dl = NoDownload
    /\ volume = {}
    /\ InitJobs

NextMonths == MonthIter

SpecMonths == InitMonths /\ [][NextMonths]_vars

\* every trigger of api/main.py, one call at a time, against a scheduler
\* that finalises deletions in its own time
NextTriggers ==
    \/ \E c \in UsedCallers, e \in Endpoints : RunJob(c, e, 1)
    \/ \E c \in UsedCallers : RunJobDelete(c)
    \/ \E c \in UsedCallers : WaitUntilJobDeleted(c)
    \/ \E c \in UsedCallers : RunJobRecreate(c)
    \/ \E n \in Names : Finalise(n)

SpecTriggers == Init /\ [][NextTriggers]_vars

\* the triggers of two consecutive stages, in any order, and their pods
PipelineEndpoints == {"filter", "sentiment"}

NextPipeline ==
    \/ \E c \in UsedCallers, e \in PipelineEndpoints : RunJob(c, e, 1)
    \/ \E c \in UsedCallers : RunJobDelete(c)
    \/ \E c \in UsedCallers : WaitUntilJobDeleted(c)
    \/ \E c \in UsedCallers : RunJobRecreate(c)
    \/ \E n \in Names : JobStarts(n)
    \/ \E n \in Names : JobWrites(n)
    \/ \E n \in Names, ph \in {"Succeeded", "Failed"} : JobEnds(n, ph)
    \/ \E n \in Names : Finalise(n)

SpecPipeline == Init /\ [][NextPipeline]_vars

\* the four stages that write per-file outputs, each on a listing of distinct
\* names or, for the correlator, on a complete series
StageNames == {"ingestor", "filter", "classifier", "correlator"}

Listings == {s \in SeqsUpTo(Items, MaxLen) : \A j, k \in DOMAIN s : s[j] = s[k] => j = k}

InitStages ==
    /\ stage \in StageNames
    /\ items \in Listings
    /\ stage = "correlator" => items = <<>>
    /\ manifest = NoJob
    /\ run = NoRun
    /\ \E n \in {MinObsCorrelation - 1, MinObsGranger - 1, MaxObs} :
          series = SeriesOf(IF stage = "correlator" THEN n ELSE 0, {}, {})
    /\ frame = NoFrame
    /\ dl = NoDownload
    /\ volume = {}
    /\ InitJobs

NextStages ==
    \/ \E p \in 1..MaxParallelism : Trigger(p)
    \/ \E i \in 0..(MaxParallelism - 1) : StagePod(i)
    \/ \E t \in 1..MaxTotal : \E i \in 0..(t - 1) : StageCall(i, t)

SpecStages == InitStages /\ [][NextStages]_vars

----------------------------------------------------------------------------
(* Properties of the work partitioner (SpecShards) *)

ValidShard(index, total) == total >= 1 /\ 0 <= index /\ index < total

\* the positions of its that split_work hands to shard index: the input is tagged
\* with its positions and the tags of the returned items are read back
PositionsOf(st, its, index, total) ==
    {p[1] : p \in Range(split_work(st, Enumerate(its), index, total).value)}

\* the items at the positions i with i mod total = index, in their original order
ItemsAtResidue(its, index, total) ==
    LET cnt == Cardinality({i \in 0..(Len(its) - 1) : i % total = index})
    IN [k \in 1..cnt |-> its[index + (k - 1) * total + 1]]

\* C1: for the input and a total >= 1 a shard process ran with, the shards
\* 0..total-1 partition the positions of the input: each position is in exactly
\* one shard and no shard holds a position twice.
C1_ExactPartition ==
    (run.called /\ run.total >= 1) =>
        /\ \A i \in 0..(run.total - 1) :
              LET r == split_work(stage, Enumerate(items), i, run.total)
              IN /\ r.raised = "none"
                 /\ Cardinality(PositionsOf(stage, items, i, run.total)) = Len(r.value)
        /\ \A p \in 0..(Len(items) - 1) :
              Cardinality({i \in 0..(run.total - 1) :
                              p \in PositionsOf(stage, items, i, run.total)}) = 1

\* a shard process ran with more shards than items: some shard owns nothing
C1_Witness ==
    /\ run.called
    /\ ValidShard(run.index, run.total)
    /\ Len(items) >= 2
    /\ run.total > Len(items)
    /\ \E i \in 0..(run.total - 1) : PositionsOf(stage, items, i, run.total) = {}

\* C2: a shard process with 0 <= index < total is handed exactly the items at the
\* positions i with i mod total = index, in their original relative order.
C2_ResidueClass ==
    (run.called /\ ValidShard(run.index, run.total)) =>
        /\ run.raised = "none"
        /\ run.my = ItemsAtResidue(items, run.index, run.total)

\* a shard of the modulo partitioner received two items that are not neighbours
C2_Witness ==
    /\ run.called
    /\ stage = "filter"
    /\ run.total >= 2
    /\ ValidShard(run.index, run.total)
    /\ Len(run.my) >= 2
    /\ run.my[1] # run.my[2]

\* a step is an invocation of the shard process
Invoked == run'.called /\ (~run.called \/ run'.tick # run.tick)

C4_InvalidShardRejected ==
    (run.called /\ ~ValidShard(run.index, run.total)) =>
        (run.raised # "none" /\ run.processed = <<>>)

\* C5 (as claimed): every replica of a job built by base_job reads a worker total
\* equal to the job's completion count.
C5_TotalIsCompletions ==
    (run.called /\ run.by = "pod") => run.total = manifest.spec.completions

----------------------------------------------------------------------------
(* Properties of the job lifecycle controller (Spec, SpecRace) *)

\* the first create of caller c's current call answered 409
FirstConflict(c) ==
    /\ log[c] # <<>>
    /\ log[c][1].op = "create"
    /\ log[c][1].rc = 409

IsDeleteOf(r, c) ==
    /\ r.op = "delete"
    /\ r.name = call[c].job_name
    /\ r.policy = "Foreground"

Last(s) == s[Len(s)]

\* C6: in a call whose first create answered 409 the requests are, in this order,
\* one Foreground delete of the job, reads of it that stop at the first 404, and
\* then at most one create of the same manifest, issued only right after a read
\* that answered 404; the call returns 'restarted' exactly when that create
\* succeeded.
C6_RestartOrder ==
    \A c \in Callers : FirstConflict(c) =>
        LET L == log[c] IN
        /\ Len(L) >= 2 => IsDeleteOf(L[2], c)
        /\ pc[c] = "delete" <=> Len(L) = 1
        /\ \A k \in 3..Len(L) :
              \/ /\ L[k].op = "read"
                 /\ L[k].name = call[c].job_name
                 /\ L[k - 1].rc = 200
              \/ /\ L[k].op = "create"
                 /\ L[k].body = L[1].body
                 /\ k = Len(L)
                 /\ L[k - 1].op = "read"
                 /\ L[k - 1].rc = 404
        /\ pc[c] = "recreate" <=> (Last(L).op = "read" /\ Last(L).rc = 404)
        /\ result[c] = Returned("restarted", call[c].job_name)
              <=> (Len(L) >= 4 /\ Last(L).op = "create" /\ Last(L).rc = 201)
        /\ result[c].kind = "return" => result[c].status = "restarted"

\* a call was answered 409, deleted, found the job on two reads and then
\* gone on a third, created it again and returned 'restarted'
C6_Witness ==
    \E c \in Callers :
        /\ FirstConflict(c)
        /\ result[c] = Returned("restarted", call[c].job_name)
        /\ Len(log[c]) >= 6
        /\ log[c][3].rc = 200
        /\ log[c][4].rc = 200

\* C7: when a read made more than Timeout time units after the wait began still
\* finds the job, the call ends with the timeout error right there; a call that
\* ended with the timeout error issued no create after its delete.
C7_FailClosed ==
    \A c \in Callers :
        LET L == log[c] IN
        /\ \A k \in DOMAIN L :
              (L[k].op = "read" /\ L[k].rc = 200 /\ L[k].at > Timeout) =>
                  /\ k = Len(L)
                  /\ pc[c] = "idle"
                  /\ result[c] = RuntimeError
        /\ result[c] = RuntimeError =>
              /\ FirstConflict(c)
              /\ Last(L).op = "read" /\ Last(L).rc = 200 /\ Last(L).at > Timeout
              /\ \A k \in 2..Len(L) : L[k].op # "create"

\* a call ended with the timeout error while the old job is still there
C7_Witness ==
    \E c \in Callers :
        /\ result[c] = RuntimeError
        /\ pc[c] = "idle"
        /\ jobs[call[c].job_name] # <<>>
        /\ jobs[call[c].job_name][1].deleting

C9_OneJobPerName ==
    /\ \A n \in Names : Len(jobs[n]) <= 1
    /\ \A c \in Callers : \A k \in DOMAIN log[c] :
          (log[c][k].op = "create" /\ log[c][k].rc = 409) =>
              \/ /\ k = 1
                 /\ result[c].kind # "return" \/ result[c].status = "restarted"
                 /\ pc[c] = "delete" \/ (Len(log[c]) >= 2 /\ IsDeleteOf(log[c][2], c))
              \/ /\ k > 1
                 /\ k = Len(log[c])
                 /\ pc[c] = "idle"
                 /\ result[c] = ApiException(409)

\* two calls raced: one had its second create answered 409 by the job the other
\* had just created
C9_Witness ==
    \E c \in Callers :
        /\ Len(log[c]) >= 4
        /\ Last(log[c]).op = "create"
        /\ Last(log[c]).rc = 409
        /\ Len(jobs[call[c].job_name]) = 1

\* an answer of the scheduler that run_job does not expect: not a success, not the
\* 409 of the first create, not the 404 of a read
Unexpected(L, k) ==
    /\ L[k].rc \notin {200, 201}
    /\ ~(k = 1 /\ L[k].op = "create" /\ L[k].rc = 409)
    /\ ~(L[k].op = "read" /\ L[k].rc = 404)

\* C10: a fault other than the 409 of the first create and the 404 of a read ends
\* the call with that very fault, and the call issues no request after it.
C10_FaultsPropagate ==
    \A c \in Callers : \A k \in DOMAIN log[c] :
        Unexpected(log[c], k) =>
            /\ k = Len(log[c])
            /\ pc[c] = "idle"
            /\ result[c] = ApiException(log[c][k].rc)

\* a poll read failed with a fault that is not 404 after an earlier read had found
\* the job, and the call ended with that fault
C10_Witness ==
    \E c \in Callers :
        /\ Len(log[c]) >= 4
        /\ Last(log[c]).op = "read"
        /\ Last(log[c]).rc \in ApiFaults
        /\ result[c] = ApiException(Last(log[c]).rc)

----------------------------------------------------------------------------
(* Properties of job_status and of a job's life (SpecStatus, Spec) *)

\* a step is a job_status call of caller c
StatusStep(c) ==
    /\ pc[c] = "idle"
    /\ log'[c] # <<>>
    /\ log'[c][1].op = "read"
    /\ <<log'[c], result'[c], call'[c]>> # <<log[c], result[c], call[c]>>

\* C11: job_status leaves the scheduler as it is; for a name the scheduler holds
\* it returns the succeeded, failed and active counts of that job's record, and
\* otherwise it ends with the fault of the read (404 for an unknown name) and
\* returns no counts.
C11_StatusCounts ==
    [][\A c \in Callers : StatusStep(c) =>
          LET n == call'[c].job_name
              rc == log'[c][1].rc
          IN /\ jobs' = jobs
             /\ (rc = 200) <=> (result'[c].kind = "status")
             /\ (rc = 200) =>
                   /\ jobs[n] # <<>>
                   /\ result'[c].name = n
                   /\ result'[c].succeeded = JobRecord(jobs[n][1]).succeeded
                   /\ result'[c].failed = JobRecord(jobs[n][1]).failed
                   /\ result'[c].active = JobRecord(jobs[n][1]).active
             /\ (jobs[n] = <<>>) => (rc # 200 /\ result'[c] = ApiException(rc))
             /\ (jobs[n] = <<>> /\ rc \notin ApiFaults) => rc = 404]_vars

\* a status query was answered with the counts of a job whose pods are running
\* after one of them had failed
C11_Witness ==
    \E c \in Callers :
        /\ result[c].kind = "status"
        /\ result[c].active >= 1
        /\ result[c].failed >= 1

\* the state of the job of name n, in the words of the job state machine
StateOf(js, n) ==
    IF js[n] = <<>> THEN "Unsubmitted"
    ELSE IF js[n][1].deleting THEN "Deleting"
    ELSE js[n][1].phase

ClaimedMoves ==
    {<<"Unsubmitted", "Created">>, <<"Created", "Running">>,
     <<"Running", "Succeeded">>, <<"Running", "Failed">>,
     <<"Created", "Deleting">>, <<"Running", "Deleting">>,
     <<"Deleting", "Unsubmitted">>}

\* C12 (as claimed): a job moves only Unsubmitted -> Created -> Running ->
\* Succeeded | Failed, a conflict takes it from Created or Running to Deleting and
\* on to Unsubmitted, and Succeeded and Failed are never left.
C12_Lifecycle ==
    [][\A n \in Names :
          \/ StateOf(jobs', n) = StateOf(jobs, n)
          \/ <<StateOf(jobs, n), StateOf(jobs', n)>> \in ClaimedMoves]_vars

\* C12 (amended): the moves are those claimed and, besides, Succeeded -> Deleting
\* and Failed -> Deleting: a job leaves any state in which it exists for Deleting
\* exactly by the delete of a run_job call whose create met it, and leaves
\* Deleting only for Unsubmitted; the job becomes Failed only when more pods
\* than backoff_limit have failed, the scheduler having replaced the earlier ones.
C12_LifecycleRestart ==
    [][\A n \in Names :
          LET a == StateOf(jobs, n)
              b == StateOf(jobs', n)
          IN /\ \/ a = b
                \/ <<a, b>> \in ClaimedMoves
                \/ <<a, b>> \in {<<"Succeeded", "Deleting">>, <<"Failed", "Deleting">>}
             /\ (a # b /\ b = "Deleting") =>
                   \E c \in Callers :
                      /\ pc[c] = "delete"
                      /\ FirstConflict(c)
                      /\ call[c].job_name = n
                      /\ Len(log'[c]) = 2
             /\ (a # b /\ b = "Failed") =>
                   jobs'[n][1].failures > jobs'[n][1].spec.spec.backoff_limit]_vars

\* a trigger met a job that had failed after its pod was replaced once, and
\* deleted it
C12_Witness ==
    \E n \in Names :
        /\ jobs[n] # <<>>
        /\ jobs[n][1].phase = "Failed"
        /\ jobs[n][1].failures = 2
        /\ jobs[n][1].deleting

----------------------------------------------------------------------------
(* Properties of the causality functions (SpecCausality) *)

\* the days on which the sentiment of k days earlier and the target are both numbers
Aligned(df, k) ==
    {i \in 1..Len(df) : i - k >= 1 /\ df[i - k].sentiment /\ df[i].target}

FullyDefined(df) == \A i \in 1..Len(df) : df[i].sentiment /\ df[i].target

RowsOf(f) == {f.res.value[i] : i \in 1..Len(f.res.value)}

\* C15: lagged_correlation reports a lag k of 0..max_lag exactly when at least
\* ten aligned observations remain after the shift by k, once, with n_obs the
\* number of those observations; on N fully defined points the lags reported
\* are exactly the k <= min(max_lag, N - 10), each with n_obs = N - k; a lag
\* left out has no row at all.
C15_LaggedRows ==
    frame.fn = "lagged_correlation" =>
        /\ frame.res.raised = "none"
        /\ \A k \in 0..frame.max_lag :
              /\ Cardinality(Aligned(series, k)) >= 10
                    <=> (\E r \in RowsOf(frame) : r.lag = k)
              /\ Cardinality({i \in 1..Len(frame.res.value) :
                                 frame.res.value[i].lag = k}) <= 1
        /\ \A r \in RowsOf(frame) :
              /\ r.lag \in 0..frame.max_lag
              /\ r.n_obs = Cardinality(Aligned(series, r.lag))
        /\ FullyDefined(series) =>
              /\ {r.lag : r \in RowsOf(frame)}
                    = {k \in 0..Min(frame.max_lag, Len(series) - 10) : TRUE}
              /\ \A r \in RowsOf(frame) : r.n_obs = Len(series) - r.lag

\* twelve fully defined points and max_lag 15: the lags 0, 1 and 2 are reported
C15_Witness ==
    /\ frame.fn = "lagged_correlation"
    /\ frame.max_lag = 15
    /\ Len(series) = 12
    /\ FullyDefined(series)
    /\ {r.lag : r \in RowsOf(frame)} = {0, 1, 2}

\* C16: granger_test ends with the insufficient-data fault, without a row,
\* exactly when fewer than 20 rows have both values, whatever max_lag is.
C16_GrangerGuard ==
    frame.fn = "granger_test" =>
        /\ Cardinality(Aligned(series, 0)) < 20
              <=> frame.res.raised = InsufficientData
        /\ frame.res.raised # "none" => frame.res.value = <<>>

\* 21 days of which 19 have both values: the fault, though max_lag is only 1
C16_Witness ==
    /\ frame.fn = "granger_test"
    /\ frame.max_lag = 1
    /\ Len(series) = 21
    /\ Cardinality(Aligned(series, 0)) = 19
    /\ frame.res = Raise(InsufficientData)

----------------------------------------------------------------------------
(* Properties of the files the stages write (SpecStages) *)

\* C13 (as claimed): no file of a stage is written by two shards of different
\* index; this fails for the ingest and classify stages.
C13_PerShardFiles ==
    \A w1, w2 \in volume : w1.file = w2.file => w1.index = w2.index

IsGlobal(w) == w.file.prefix \in {"sentiment_vs_icolcap", "rolling_correlation"}
IsSummary(w) == w.file.prefix = "summary_part"
Summaries == {w \in volume : IsSummary(w)}

\* C14: the two global plots are written by the shard of index 0 and by no
\* other; a shard of another index that ran to its end wrote neither, and the
\* shard of index 0 that ran to its end wrote both.
C14_GlobalByShardZero ==
    /\ \A w \in volume : IsGlobal(w) => w.index = 0
    /\ \A s \in Summaries :
          s.index = 0 =>
             {w.file.prefix : w \in {v \in volume : IsGlobal(v)}}
                = {"sentiment_vs_icolcap", "rolling_correlation"}

\* replica 1 of a correlator job ran to its end beside replica 0, and the
\* plots on the volume are those of replica 0
C14_Witness ==
    /\ stage = "correlator"
    /\ \E s \in Summaries : s.by = "pod" /\ s.index = 1
    /\ \E w \in volume : w.file.prefix = "rolling_correlation" /\ w.index = 0
    /\ \E w \in volume : w.file.prefix = "sentiment_vs_icolcap" /\ w.index = 0

KeysOf(w) == {w.content[k].key : k \in DOMAIN w.content}

FullKeys ==
    {ReportKey("lagged_correlation_lag", m) : m \in 1..10}
        \cup {ReportKey("granger_lag", m) : m \in 1..10}

\* every shard 0..total-1 of the configuration has written its report
AllSummaries ==
    /\ Summaries # {}
    /\ \A s \in Summaries : s.total >= 1
    /\ \A s \in Summaries : \A i \in 0..(s.total - 1) : \E r \in Summaries : r.index = i

\* C17: the reports of two shards of different index share no key, no report
\* holds a key twice, and once every shard 0..total-1 has written its report
\* the union of their keys is one lagged-correlation key and one Granger key
\* for each lag of the list 1..10.
C17_DisjointReports ==
    /\ \A s1, s2 \in Summaries :
          s1.index # s2.index => KeysOf(s1) \cap KeysOf(s2) = {}
    /\ \A s \in Summaries :
          \A j, k \in DOMAIN s.content : s.content[j].key = s.content[k].key => j = k
    /\ AllSummaries => UNION {KeysOf(s) : s \in Summaries} = FullKeys

\* both shards of a total of 2 have written reports, neither of them empty
C17_Witness ==
    /\ AllSummaries
    /\ \E s1, s2 \in Summaries :
          /\ s1.total = 2 /\ s1.index = 0 /\ s2.index = 1
          /\ KeysOf(s1) # {} /\ KeysOf(s2) # {}

\* C18 (as claimed): the reports of the shards are merged into one report that
\* holds the union of their entries; no code merges them, so once every shard of
\* a total of 2 or more has written its report no report holds that union.
C18_MergedReport ==
    AllSummaries =>
        \E w \in volume : KeysOf(w) = UNION {KeysOf(s) : s \in Summaries}

IsLagTable(w) == w.file.prefix = "lagged_correlation_lag" /\ w.file.ext = "csv"
LagTables == {w \in volume : IsLagTable(w) /\ w.total >= 1 /\ w.index \in 0..(w.total - 1)}
LagsIn(w) == {w.content[1].rows[k].lag : k \in DOMAIN w.content[1].rows}

\* the positions 0..L the Work Partitioner gives to shard index of total
ShareOf(index, total, first, last) ==
    {m \in first..last : (m - first) % total = index}

\* C19 (as claimed): the correlation entries a shard computes are those of the
\* lags of its share of 0..L, here L = 10.
C19_OwnLagsOnly ==
    \A w \in LagTables : LagsIn(w) \subseteq ShareOf(w.index, w.total, 0, 10)

\* C19 (amended): the share is taken of the experiments 1..10, each experiment
\* m is run by the one shard whose share holds it, and the table of experiment
\* m holds the entries of all lags 0..m that leave ten observations, whichever
\* shard computes it.
C19_OwnExperiments ==
    /\ \A w \in LagTables :
          /\ w.file.n \in ShareOf(w.index, w.total, 1, 10)
          /\ LagsIn(w) = {k \in 0..w.file.n : Len(series) - k >= 10}
    /\ \A w1, w2 \in LagTables : w1.file = w2.file => w1.index = w2.index
    /\ AllSummaries =>
          \A m \in 1..10 : \E w \in LagTables : w.file.n = m

\* shard 1 of 2 ran experiment 2 and its table holds the lags 0, 1 and 2
C19_Witness ==
    \E w \in LagTables :
        /\ w.total = 2 /\ w.index = 1
        /\ w.file.n = 2
        /\ LagsIn(w) = {0, 1, 2}

----------------------------------------------------------------------------
(* Properties of the order of the stages (SpecPipeline) *)

\* C20 (as claimed): the job of a stage exists at the scheduler only when the
\* stage before it has written output to the shared volume; the triggers look
\* at nothing, so this fails with the first trigger of a later stage.
C20_UpstreamFirst ==
    \A n \in Names :
        (jobs[n] # <<>> /\ Upstream(n) # "none") =>
            \E w \in volume : w.file.prefix = OutputDir(Upstream(n))

----------------------------------------------------------------------------
(* Properties of the deletion wait (SpecWait) *)

ReadsOf(c) == {k \in DOMAIN log[c] : log[c][k].op = "read"}

\* C21: wait_until_job_deleted makes at most Timeout + 2 reads; a read that
\* answers 404 ends it with a return, whenever it is made; the timeout error is
\* raised only right after a read that found the job more than Timeout time
\* units after the start, never at Timeout itself; and a call inside the wait
\* always leaves it.
C21_WaitEnds ==
    /\ [](\A c \in UsedCallers :
            /\ Cardinality(ReadsOf(c)) <= 30 + 2
            /\ \A k \in ReadsOf(c) :
                  /\ log[c][k].at = k - 3
                  /\ log[c][k].rc = 404 =>
                        /\ k >= Len(log[c]) - 1
                        /\ result[c] # RuntimeError
                        /\ pc[c] # "wait"
                  /\ (log[c][k].rc = 200 /\ log[c][k].at <= 30) =>
                        (k = Len(log[c]) => pc[c] = "wait")
            /\ result[c] = RuntimeError =>
                  /\ Last(log[c]).op = "read"
                  /\ Last(log[c]).rc = 200
                  /\ Last(log[c]).at = 30 + 1)
    /\ \A c \in UsedCallers : (pc[c] = "wait") ~> (pc[c] # "wait")

\* the read made after the deadline answered 404 and the wait returned
C21_Witness ==
    \E c \in UsedCallers :
        /\ pc[c] = "recreate"
        /\ Last(log[c]).op = "read"
        /\ Last(log[c]).rc = 404
        /\ Last(log[c]).at = 30 + 1

----------------------------------------------------------------------------
(* Properties of concurrent triggers (SpecRace) *)

\* C22 (as claimed): no run_job call ends with the 409 name conflict as its
\* fault; with two calls for one name this fails at the second create.
C22_ConflictNeverSurfaces ==
    \A c \in Callers : result[c] # ApiException(409)

----------------------------------------------------------------------------
(* Properties of a failing analysis (SpecStages) *)

\* C23 (as claimed): a shard whose invocation ended with the insufficient-data
\* fault has left nothing on the volume; this fails, the correlation table and
\* plot of the first lag of its share being written before granger_test is called.
C23_NoPartialOutput ==
    (frame.fn = "correlator" /\ frame.res.raised = InsufficientData) =>
        \A w \in volume : w.index # frame.index

----------------------------------------------------------------------------
(* Properties of src/download.py (SpecDownload, SpecMonths) *)

RECURSIVE Power(_, _)
Power(b, n) == IF n <= 0 THEN 1 ELSE b * Power(b, n - 1)

\* C24: download_one makes at most retries + 1 requests; it has slept
\* backoff^k after the k-th failed request for each k up to the number of
\* requests still to follow, so not after the last one; it returns
\* (fname, True, 'ok') at the first request that succeeds and
\* (fname, False, last error) after retries + 1 failed requests; and the loop
\* always ends.
C24_BoundedRetries ==
    /\ [](dl.pc \in {"loop", "done"} =>
            /\ dl.requests <= dl.retries + 1 \/ dl.requests = 0
            /\ \A k \in DOMAIN dl.slept : dl.slept[k] = Power(dl.backoff, k)
            /\ dl.pc = "loop" =>
                  /\ Len(dl.slept) = dl.requests
                  /\ dl.requests <= dl.retries
            /\ (dl.pc = "done" /\ dl.requests > 0) => Len(dl.slept) = dl.requests - 1
            /\ (dl.pc = "done" /\ dl.result.kind = "return" /\ dl.result.message = "ok") =>
                  /\ dl.result.success
                  /\ dl.files[dl.url] = "complete"
            /\ (dl.pc = "done" /\ dl.result.kind = "return" /\ ~dl.result.success) =>
                  /\ dl.requests = Max(dl.retries + 1, 0)
                  /\ dl.result.message = dl.last_err
                  /\ dl.result.fname = dl.url)
    /\ (dl.pc = "loop") ~> (dl.pc = "done")

\* three requests failed with retries = 2 and backoff = 2: two sleeps, of 2 and 4
C24_Witness ==
    /\ dl.pc = "done"
    /\ dl.retries = 2
    /\ dl.requests = 3
    /\ dl.result = Result(dl.url, FALSE, "RequestException")
    /\ dl.slept = <<2, 4>>

Ord(y, m) == 12 * y + (m - 1)

\* C25: for start_date <= end_date month_iter yields the months from that of
\* start_date to that of end_date, each once, in increasing order, December
\* followed by January of the next year; when the month of start_date is after
\* that of end_date it yields nothing.
C25_MonthsCovered ==
    frame.fn = "month_iter" =>
        LET s == frame.start_date
            e == frame.end_date
            res == frame.res.value
            first == Ord(s.year, s.month)
            last == Ord(e.year, e.month)
        IN /\ first <= last =>
                 /\ Len(res) = last - first + 1
                 /\ \A i \in DOMAIN res :
                       /\ res[i][2] \in 1..12
                       /\ Ord(res[i][1], res[i][2]) = first + i - 1
           /\ first > last => res = <<>>

\* from November 2023 to February 2024: four months across the turn of the year
C25_Witness ==
    /\ frame.fn = "month_iter"
    /\ frame.start_date = Date(2023, 11, 28)
    /\ frame.end_date = Date(2024, 2, 1)
    /\ frame.res.value = <<<<2023, 11>>, <<2023, 12>>, <<2024, 1>>, <<2024, 2>>>>

\* C26 (as claimed): 'exists' is reported only for a complete file, a call whose
\* attempts all failed having left no file; this fails when an attempt fails
\* while the body is being written.
C26_ExistsMeansComplete ==
    /\ (dl.pc = "done" /\ dl.result.kind = "return" /\ dl.result.message = "exists") =>
          dl.files[dl.url] = "complete"
    /\ (dl.pc = "done" /\ dl.result.kind = "return" /\ ~dl.result.success) =>
          dl.files[dl.url] = "absent"

----------------------------------------------------------------------------
(* Properties of the six triggers (SpecTriggers) *)

\* C27: the job name a trigger passes to run_job is the metadata name of the
\* manifest it passes, and no two triggers share a name; so every request of a
\* call names that one job, and a job starts being deleted only by the delete
\* of a call whose own create of that name was answered 409.
C27_SameJob ==
    /\ [](/\ \A e1, e2 \in Endpoints :
               e1 # e2 => EndpointCall(e1, 1).job_name # EndpointCall(e2, 1).job_name
          /\ \A c \in UsedCallers : call[c] # NoCall =>
               /\ call[c].job_name = call[c].job_manifest.metadata.name
               /\ \A k \in DOMAIN log[c] : log[c][k].name = call[c].job_name
          /\ \A n \in Names : jobs[n] # <<>> => jobs[n][1].spec.metadata.name = n)
    /\ [][\A n \in Names :
            (StateOf(jobs, n) # "Deleting" /\ StateOf(jobs', n) = "Deleting") =>
                \E c \in UsedCallers :
                    /\ pc[c] = "delete"
                    /\ call[c].job_name = n
                    /\ log[c][1].op = "create"
                    /\ log[c][1].name = n
                    /\ log[c][1].body.metadata.name = n
                    /\ log[c][1].rc = 409]_vars

\* the job of the classify stage is being deleted by its trigger while the
\* jobs of the filter and correlate stages stand untouched
C27_Witness ==
    /\ StateOf(jobs, "classifier-job") = "Deleting"
    /\ StateOf(jobs, "filter-job") = "Created"
    /\ StateOf(jobs, "correlator-job") = "Created"
    /\ \E c \in UsedCallers : call[c].job_name = "classifier-job" /\ pc[c] = "wait"

----------------------------------------------------------------------------
(* The requests and the effect of one run_job call (Spec) *)

Count(L, op) == Cardinality({k \in DOMAIN L : L[k].op = op})

\* C28: a run_job call issues at most two creates and at most one delete; when
\* its first create succeeds that is its only request and it returns
\* 'created'; it returns 'restarted' only when its second create succeeded; and
\* with no other caller, a call that has returned leaves one job of its name
\* in the scheduler, not being deleted and holding the manifest it submitted.
C28_CallFootprint ==
    \A c \in UsedCallers :
        LET L == log[c] IN
        /\ Count(L, "create") <= 2
        /\ Count(L, "delete") <= 1
        /\ (L # <<>> /\ L[1].op = "create" /\ L[1].rc = 201) =>
              /\ Len(L) = 1
              /\ result[c] = Returned("created", call[c].job_name)
        /\ (result[c].kind = "return" /\ result[c].status = "created") =>
              (Len(L) = 1 /\ L[1].rc = 201)
        /\ (result[c].kind = "return" /\ result[c].status = "restarted") =>
              /\ Count(L, "create") = 2
              /\ Last(L).op = "create"
              /\ Last(L).rc = 201
        /\ result[c].kind = "return" =>
              /\ Len(jobs[call[c].job_name]) = 1
              /\ ~jobs[call[c].job_name][1].deleting
              /\ jobs[call[c].job_name][1].spec = call[c].job_manifest

\* a job of one replica was restarted with a manifest of two
C28_Witness ==
    \E c \in UsedCallers :
        /\ result[c] = Returned("restarted", call[c].job_name)
        /\ call[c].job_manifest.spec.parallelism = 2
        /\ jobs[call[c].job_name][1].spec.spec.completions = 2
        /\ Count(log[c], "delete") = 1

----------------------------------------------------------------------------
(* The two partitioners compared, and the sizes of the shares (SpecShards) *)

\* C29: for the input and the valid (index, total) a shard process ran with, the
\* slice of app/sources.py and the comprehension of app/filter.py and
\* app/correlator.py return the same list, which is the share the process took.
C29_SliceIsModulo ==
    (run.called /\ ValidShard(run.index, run.total)) =>
        /\ split_work_slice(items, run.index, run.total)
              = split_work_modulo(items, run.index, run.total)
        /\ split_work_slice(items, run.index, run.total) = Return(run.my)

\* the sources stage took a share of two items that both versions agree on
C29_Witness ==
    /\ run.called
    /\ stage = "sources"
    /\ run.total = 2
    /\ run.index = 0
    /\ Len(run.my) = 2
    /\ split_work_modulo(items, 0, 2).value = run.my

CeilDiv(a, b) == (a + b - 1) \div b

ShareSize(n, index, total) == IF index < n THEN CeilDiv(n - index, total) ELSE 0

\* C30: for the n items and a total >= 1 a shard process ran with, shard index
\* of either partitioner receives ceil((n - index) / total) items when
\* index < n and none otherwise; the sizes of two shards differ by at most 1
\* and a lower index never receives fewer items than a higher one.
C30_Balanced ==
    (run.called /\ run.total >= 1) =>
        LET n == Len(items)
            size(i) == Len(split_work(stage, items, i, run.total).value)
        IN /\ \A i \in 0..(run.total - 1) :
                 /\ size(i) = ShareSize(n, i, run.total)
                 /\ Len(split_work_slice(items, i, run.total).value) = ShareSize(n, i, run.total)
                 /\ Len(split_work_modulo(items, i, run.total).value) = ShareSize(n, i, run.total)
           /\ \A i, j \in 0..(run.total - 1) :
                 i < j => (size(i) >= size(j) /\ size(i) - size(j) <= 1)
           /\ ValidShard(run.index, run.total) =>
                 Len(run.my) = ShareSize(n, run.index, run.total)

\* three items over two shards: the process of shard 1 received one item, shard 0
\* receives two
C30_Witness ==
    /\ run.called
    /\ Len(items) = 3
    /\ run.total = 2
    /\ run.index = 1
    /\ Len(run.my) = 1
    /\ Len(split_work(stage, items, 0, 2).value) = 2

====
